---------------------------- MODULE Spec2Model ----------------------------
(***************************************************************************)
(* A model of the win-process crate (src/src/lib.rs): a Process handle     *)
(* with its lazily cached bitness, the typed and raw transfers built on    *)
(* ReadProcessMemory / WriteProcessMemory, the pointer resolver, the       *)
(* string decoders, the allocator, the lazily cached names and module info *)
(* and the life of the OS handles.                                         *)
(*                                                                         *)
(* Numbers wider than a byte are little-endian byte sequences, as they     *)
(* lie in the target's memory: a u32 is 4 bytes, a u64 and an Address      *)
(* (isize of an x86_64 build) are 8 bytes, and additions carry byte by     *)
(* byte, so that a pointer keeps its width and its sign bit.               *)
(***************************************************************************)
EXTENDS Integers, Sequences, FiniteSets, TLC

VARIABLES
    mem,        \* the target's memory: offset from Base -> byte
    wow64,      \* whether the target runs under WOW64 (a 32-bit target)
    is_64_bit,  \* Process::is_64_bit, the bitness cache: None or Some(b)
    wrote,      \* the last write_value that succeeded and that no later write
                \* has touched: None or Some([address, value])
    last,       \* the call that has just run, until it returns to the caller:
                \* its arguments, the OS calls it made, its result
    name,       \* Process::name, the process name cache: None or Some(string)
    module,     \* a ProcessModule of the target: its name, file_name and
                \* module_info caches
    target,     \* what the OS holds about the target: the UTF-16 units of its
                \* base name and file name, its MODULEINFO
    regions,    \* base addresses of the regions committed in the target
    allocated,  \* the addresses allocate_memory returned that free_memory has
                \* not freed since
    handles,    \* the OS handle table: handle -> [state, closes]
    owned,      \* the handles held by the Process values that are alive
    processes,  \* the OS's processes: pid -> [grant, name], whether
                \* OpenProcess grants a handle on it and its base name
    iter        \* the iterator get_processes / get_processes_by_name returned
                \* last: the pids it holds, those left, its name filter

\* the state beside the handle's transfers: metadata, allocator, handle table
sys == <<name, module, target, regions, allocated, handles, owned, processes, iter>>

vars == <<mem, wow64, is_64_bit, wrote, last, name, module, target, regions,
          allocated, handles, owned, processes, iter>>

(***************************************************************************)
(* Bounds of the model.                                                    *)
(***************************************************************************)
\* 8-byte slots of target memory that are readable and writable
RwSlots == 2
\* 8-byte slots of read-only target memory that follow them
RoSlots == 1
\* offset of the mapped region in the target's address space
Base == 32
\* longest offset path handed to deref_offsets
MaxOffsets == 2
\* largest capacity N of a read_string call
MaxN == 4
\* regions the OS has room for in the target
MaxRegions == 2
\* handles the OS hands out
MaxHandles == 4
\* processes on the system
MaxProcs == 2

(***************************************************************************)
(* Program constants.                                                      *)
(***************************************************************************)
\* size_of::<isize>() of the x86_64 build: pub type Address = isize
AddrBytes == 8
\* size_of::<u32>(), read by read_pointer on a 32-bit target
U32Bytes == 4
\* size_of::<u64>(), read by read_pointer on a 64-bit target
U64Bytes == 8
\* units of the buffer of name_internal, and the nSize its query is given
BaseNameUnits == 255
\* MAX_PROCESSES, the length of pid_process, which K32EnumProcesses is given
\* as the size of the array in bytes
MAX_PROCESSES == 1024
\* units of the buffer of file_name_internal (its query is given 255)
FileNameUnits == 1024

Byte == 0..255

None == <<>>
Some(v) == <<v>>

RwSize == RwSlots * 8
MemSize == (RwSlots + RoSlots) * 8

Min(a, b) == IF a < b THEN a ELSE b

Repeat(b, n) == [i \in 1..n |-> b]

(***************************************************************************)
(* Fixed-width arithmetic on little-endian byte sequences.                 *)
(***************************************************************************)
\* `val as isize` / `val as Address` of an unsigned value: zero extension
\* (u32) or the same 8 bytes (u64)
AsAddress(bs) == bs \o Repeat(0, AddrBytes - Len(bs))

RECURSIVE AddCarry(_, _, _)
AddCarry(a, b, c) ==
    IF a = <<>> THEN <<>>
    ELSE LET s == Head(a) + Head(b) + c
         IN  <<s % 256>> \o AddCarry(Tail(a), Tail(b), s \div 256)

\* isize::wrapping_add: the sum modulo 2^64
WrappingAdd(a, b) == AddCarry(a, b, 0)

IsNegative(a) == a[AddrBytes] >= 128

\* whether the isize addition a + b leaves the isize range
AddOverflows(a, b) ==
    /\ IsNegative(a) = IsNegative(b)
    /\ IsNegative(WrappingAdd(a, b)) # IsNegative(a)

\* the Address of a small number
Addr(n) == <<n % 256, (n \div 256) % 256>> \o Repeat(0, AddrBytes - 2)
\* the u32 of a small number
U32(n) == <<n % 256, (n \div 256) % 256, 0, 0>>

\* offset from Base of an address, or -1 when the address is far from the region
MemIndex(a) ==
    IF \A i \in 3..AddrBytes : a[i] = 0
    THEN LET n == a[1] + 256 * a[2]
         IN  IF n >= Base /\ n - Base < MemSize THEN n - Base ELSE -1
    ELSE -1

(***************************************************************************)
(* The OS calls the crate makes (windows_sys), by their Win32 contract.    *)
(***************************************************************************)
\* ReadProcessMemory(handle, address, buf, size, &bytes_read): copies the
\* readable bytes at the head of the range into buf and returns non-zero only
\* when the whole range was copied (else ERROR_PARTIAL_COPY and zero)
ReadProcessMemory(m, address, buf) ==
    LET size == Len(buf)
        idx  == MemIndex(address)
        n    == IF idx < 0 THEN 0 ELSE Min(size, MemSize - idx)
    IN  [ret        |-> IF n = size THEN 1 ELSE 0,
         bytes_read |-> n,
         buf        |-> [i \in 1..size |-> IF i <= n THEN m[idx + i - 1] ELSE buf[i]]]

\* WriteProcessMemory(handle, address, data, size, &bytes_written): returns
\* non-zero only when the whole range was written; on failure the writable bytes
\* at the head of the range may or may not have landed (lands)
WriteProcessMemory(m, address, data, lands) ==
    LET size == Len(data)
        idx  == MemIndex(address)
        n    == IF idx < 0 \/ idx >= RwSize THEN 0 ELSE Min(size, RwSize - idx)
        k    == IF n = size \/ lands THEN n ELSE 0
    IN  [ret           |-> IF n = size THEN 1 ELSE 0,
         bytes_written |-> k,
         mem           |-> [i \in DOMAIN m |->
                               IF idx >= 0 /\ i >= idx /\ i < idx + k
                               THEN data[i - idx + 1] ELSE m[i]]]

\* IsWow64Process(handle, &proc_wow64): q is whether the query succeeds
IsWow64Process(w, q) ==
    [ret |-> IF q THEN 1 ELSE 0, proc_wow64 |-> IF w THEN 1 ELSE 0]

(***************************************************************************)
(* A call's context: the handle's bitness cache as the call goes, whether  *)
(* the OS answers a pointer-width query during the call (query_ok), the    *)
(* byte an uninitialized local buffer happens to hold (uninit), and the    *)
(* log of the OS queries (qlog) and transfers (rlog) the call has made.    *)
(***************************************************************************)
Ctx(cache, query_ok, uninit) ==
    [cache |-> cache, query_ok |-> query_ok, uninit |-> uninit,
     qlog |-> <<>>, rlog |-> <<>>]

(***************************************************************************)
(* src/src/process.rs                                                      *)
(***************************************************************************)
\* Process::is_64_bit without its early return: every call queries the OS
Process_is_64_bit_requery(w, ctx) ==
    LET os == IsWow64Process(w, ctx.query_ok)
        b  == IF os.ret = 0 THEN FALSE ELSE os.proc_wow64 = 0
    IN  [ret |-> Some(b),
         ctx |-> [ctx EXCEPT !.cache = Some(b),
                             !.qlog = Append(@, os.ret # 0)]]

\* Process::is_64_bit
Process_is_64_bit(w, ctx) ==
    IF ctx.cache # None
    THEN [ret |-> ctx.cache, ctx |-> ctx]
    ELSE LET os == IsWow64Process(w, ctx.query_ok)
             b  == IF os.ret = 0 THEN FALSE ELSE os.proc_wow64 = 0
         IN  [ret |-> Some(b),
              ctx |-> [ctx EXCEPT !.cache = Some(b),
                                  !.qlog = Append(@, os.ret # 0)]]

(***************************************************************************)
(* src/src/process_memory.rs                                               *)
(***************************************************************************)
\* Process::read_buf that takes any byte read for success
read_buf_any_byte(m, ctx, address, buf) ==
    LET os == ReadProcessMemory(m, address, buf)
    IN  [ret |-> os.bytes_read # 0,
         buf |-> os.buf,
         ctx |-> [ctx EXCEPT !.rlog = Append(@,
                    [address |-> address, size |-> Len(buf),
                     bytes_read |-> os.bytes_read])]]

\* Process::read_buf: buf is the caller's buffer, as bytes
read_buf(m, ctx, address, buf) ==
    LET os == ReadProcessMemory(m, address, buf)
    IN  [ret |-> os.ret # 0,
         buf |-> os.buf,
         ctx |-> [ctx EXCEPT !.rlog = Append(@,
                    [address |-> address, size |-> Len(buf),
                     bytes_read |-> os.bytes_read])]]

\* Process::read_into_uninit_buf: buf is the uninitialized buffer, as bytes
read_into_uninit_buf(m, ctx, address, buf) ==
    LET os == ReadProcessMemory(m, address, buf)
    IN  [ret |-> IF os.ret # 0 THEN Some(os.buf) ELSE None,
         ctx |-> [ctx EXCEPT !.rlog = Append(@,
                    [address |-> address, size |-> Len(buf),
                     bytes_read |-> os.bytes_read])]]

\* Process::read_value::<T>, size = size_of::<T>(): the match on read_buf's result
read_value_match(r) ==
    [ret |-> IF r.ret THEN Some(r.buf) ELSE None, ctx |-> r.ctx]

read_value_resolving(m, ctx, address, size) ==
    read_value_match(read_buf(m, Process_is_64_bit(FALSE, ctx).ctx, address,
                              Repeat(ctx.uninit, size)))

\* Process::read_value::<T>, size = size_of::<T>()
read_value(m, ctx, address, size) ==
    read_value_match(read_buf(m, ctx, address, Repeat(ctx.uninit, size)))

map_as_address_signed(r) ==
    [ret |-> IF r.ret = None THEN None
             ELSE Some(r.ret[1] \o Repeat(IF r.ret[1][Len(r.ret[1])] >= 128
                                          THEN 255 ELSE 0,
                                          AddrBytes - Len(r.ret[1]))),
     ctx |-> r.ctx]

\* `.map(|val| val as Address)` of read_pointer
map_as_address(r) ==
    [ret |-> IF r.ret = None THEN None ELSE Some(AsAddress(r.ret[1])),
     ctx |-> r.ctx]

\* Process::read_pointer: the match on is_64_bit's result b
read_pointer_match(m, b, address) ==
    IF b.ret = Some(TRUE)
    THEN map_as_address(read_value(m, b.ctx, address, U64Bytes))
    ELSE IF b.ret = Some(FALSE)
    THEN map_as_address(read_value(m, b.ctx, address, U32Bytes))
    ELSE [ret |-> None, ctx |-> b.ctx]

\* Process::read_pointer
read_pointer(m, w, ctx, address) ==
    read_pointer_match(m, Process_is_64_bit(w, ctx), address)

\* isize `+`: with overflow checks (a debug build) an overflowing addition
\* panics, without them (a release build) it wraps
CheckedAdd(a, b, checks) ==
    IF checks /\ AddOverflows(a, b)
    THEN [panic |-> TRUE, sum |-> a]
    ELSE [panic |-> FALSE, sum |-> WrappingAdd(a, b)]

RECURSIVE deref_path(_, _, _, _, _, _)
\* deref_offsets whose loop goes on from the null address after a failed read
\* (unwrap_or_default in place of `?`)
deref_path_try_default(m, w, r, path, checks) ==
    IF r.ret = None
    THEN deref_path(m, w, r.ctx, Addr(0), path, checks)
    ELSE deref_path(m, w, r.ctx, r.ret[1], path, checks)

\* deref_offsets: `?` on the read_pointer result r of the loop, then the next turn
deref_path_try(m, w, r, path, checks) ==
    IF r.ret = None
    THEN [ret |-> None, panic |-> FALSE, ctx |-> r.ctx]
    ELSE deref_path(m, w, r.ctx, r.ret[1], path, checks)

\* deref_offsets: `self.read_pointer(address + val as isize)` of the loop, at
\* being the sum
deref_path_read(m, w, ctx, at, path, checks) ==
    IF at.panic
    THEN [ret |-> None, panic |-> TRUE, ctx |-> ctx]
    ELSE deref_path_try(m, w, read_pointer(m, w, ctx, at.sum), path, checks)

\* deref_offsets: the loop `for &val in path`
deref_path(m, w, ctx, address, path, checks) ==
    IF path = <<>>
    THEN [ret |-> Some(address), panic |-> FALSE, ctx |-> ctx]
    ELSE deref_path_read(m, w, ctx,
                         CheckedAdd(address, AsAddress(Head(path)), checks),
                         Tail(path), checks)

\* deref_offsets: `address = address + last as isize` and `Some(address)`, fin
\* being the sum
deref_last_sum(fin, ctx) ==
    IF fin.panic
    THEN [ret |-> None, panic |-> TRUE, ctx |-> ctx]
    ELSE [ret |-> Some(fin.sum), panic |-> FALSE, ctx |-> ctx]

\* deref_offsets: after the loop, walk being its outcome
deref_last(walk, lst, checks) ==
    IF walk.ret = None
    THEN walk
    ELSE deref_last_sum(CheckedAdd(walk.ret[1], AsAddress(lst), checks), walk.ctx)

\* deref_offsets that dereferences after every offset, the last one too
deref_split_all(m, w, first, offsets, checks) ==
    IF first.ret = None
    THEN [ret |-> None, panic |-> FALSE, ctx |-> first.ctx]
    ELSE deref_path(m, w, first.ctx, first.ret[1], offsets, checks)

\* deref_offsets: after `let mut address = self.read_pointer(address)?`
deref_split(m, w, first, offsets, checks) ==
    IF first.ret = None
    THEN [ret |-> None, panic |-> FALSE, ctx |-> first.ctx]
    ELSE IF offsets = <<>>
    THEN [ret |-> first.ret, panic |-> FALSE, ctx |-> first.ctx]
    ELSE deref_last(deref_path(m, w, first.ctx, first.ret[1],
                               SubSeq(offsets, 1, Len(offsets) - 1), checks),
                    offsets[Len(offsets)], checks)

\* Process::deref_offsets
deref_offsets(m, w, ctx, address, offsets, checks) ==
    deref_split(m, w, read_pointer(m, w, ctx, address), offsets, checks)

(***************************************************************************)
(* src/src/common.rs, and the decoders of the standard library it calls.   *)
(* A String is the sequence of its chars, each a Unicode scalar value.     *)
(***************************************************************************)
\* core::str::from_utf8's UTF8_CHAR_WIDTH table
utf8_char_width(b) ==
    IF b < 128 THEN 1
    ELSE IF b >= 194 /\ b <= 223 THEN 2
    ELSE IF b >= 224 /\ b <= 239 THEN 3
    ELSE IF b >= 240 /\ b <= 244 THEN 4
    ELSE 0

\* a continuation byte, 0x80..=0xBF
utf8_is_cont(b) == b >= 128 /\ b <= 191

\* the second byte core::str::from_utf8 accepts after the first of a 3-byte
\* sequence: no overlong form, no surrogate
utf8_second_of_3(first, second) ==
    \/ first = 224 /\ second >= 160 /\ second <= 191
    \/ first >= 225 /\ first <= 236 /\ utf8_is_cont(second)
    \/ first = 237 /\ second >= 128 /\ second <= 159
    \/ first >= 238 /\ first <= 239 /\ utf8_is_cont(second)

\* the second byte it accepts after the first of a 4-byte sequence: no
\* overlong form, nothing above U+10FFFF
utf8_second_of_4(first, second) ==
    \/ first = 240 /\ second >= 144 /\ second <= 191
    \/ first >= 241 /\ first <= 243 /\ utf8_is_cont(second)
    \/ first = 244 /\ second >= 128 /\ second <= 143

\* core::str::from_utf8(v), from the i-th byte on, acc being the chars so far
RECURSIVE from_utf8_at(_, _, _)
from_utf8_at(v, i, acc) ==
    IF i > Len(v) THEN Some(acc)
    ELSE LET w == utf8_char_width(v[i])
         IN  IF w = 1
             THEN from_utf8_at(v, i + 1, Append(acc, v[i]))
             ELSE IF w = 2
             THEN IF i + 1 <= Len(v) /\ utf8_is_cont(v[i + 1])
                  THEN from_utf8_at(v, i + 2,
                         Append(acc, (v[i] - 192) * 64 + (v[i + 1] - 128)))
                  ELSE None
             ELSE IF w = 3
             THEN IF /\ i + 2 <= Len(v)
                     /\ utf8_second_of_3(v[i], v[i + 1])
                     /\ utf8_is_cont(v[i + 2])
                  THEN from_utf8_at(v, i + 3,
                         Append(acc, (v[i] - 224) * 4096 + (v[i + 1] - 128) * 64
                                     + (v[i + 2] - 128)))
                  ELSE None
             ELSE IF w = 4
             THEN IF /\ i + 3 <= Len(v)
                     /\ utf8_second_of_4(v[i], v[i + 1])
                     /\ utf8_is_cont(v[i + 2])
                     /\ utf8_is_cont(v[i + 3])
                  THEN from_utf8_at(v, i + 4,
                         Append(acc, (v[i] - 240) * 262144 + (v[i + 1] - 128) * 4096
                                     + (v[i + 2] - 128) * 64 + (v[i + 3] - 128)))
                  ELSE None
             ELSE None

\* str::from_utf8(v).map(|val| val.to_string()).ok()
from_utf8(v) == from_utf8_at(v, 1, <<>>)

\* a UTF-16 unit that is half of a surrogate pair, 0xD800..=0xDFFF
utf16_is_surrogate(u) == u >= 55296 /\ u <= 57343

\* a trailing surrogate, 0xDC00..=0xDFFF
utf16_is_low(u) == u >= 56320 /\ u <= 57343

\* String::from_utf16(v), from the i-th unit on, acc being the chars so far
RECURSIVE from_utf16_at(_, _, _)
from_utf16_at(v, i, acc) ==
    IF i > Len(v) THEN Some(acc)
    ELSE IF ~utf16_is_surrogate(v[i])
    THEN from_utf16_at(v, i + 1, Append(acc, v[i]))
    ELSE IF utf16_is_low(v[i])
    THEN None
    ELSE IF i + 1 <= Len(v) /\ utf16_is_low(v[i + 1])
    THEN from_utf16_at(v, i + 2,
           Append(acc, 65536 + (v[i] - 55296) * 1024 + (v[i + 1] - 56320)))
    ELSE None

\* String::from_utf16(v).ok()
from_utf16(v) == from_utf16_at(v, 1, <<>>)

\* buf.iter().position(|val| val.eq(&0)).unwrap_or(buf.len())
null_terminator(buf) ==
    IF \E i \in 1..Len(buf) : buf[i] = 0
    THEN (CHOOSE i \in 1..Len(buf) :
              buf[i] = 0 /\ \A j \in 1..(i - 1) : buf[j] # 0) - 1
    ELSE Len(buf)

\* get_string_utf8
get_string_utf8(buf) == from_utf8(SubSeq(buf, 1, null_terminator(buf)))

\* String::from_utf16_lossy(v), from the i-th unit on: U+FFFD for an unpaired
\* surrogate
RECURSIVE from_utf16_lossy_at(_, _, _)
from_utf16_lossy_at(v, i, acc) ==
    IF i > Len(v) THEN Some(acc)
    ELSE IF ~utf16_is_surrogate(v[i])
    THEN from_utf16_lossy_at(v, i + 1, Append(acc, v[i]))
    ELSE IF ~utf16_is_low(v[i]) /\ i + 1 <= Len(v) /\ utf16_is_low(v[i + 1])
    THEN from_utf16_lossy_at(v, i + 2,
           Append(acc, 65536 + (v[i] - 55296) * 1024 + (v[i + 1] - 56320)))
    ELSE from_utf16_lossy_at(v, i + 1, Append(acc, 65533))

\* get_string_utf16 that decodes with String::from_utf16_lossy
get_string_utf16_lossy(buf) ==
    from_utf16_lossy_at(SubSeq(buf, 1, null_terminator(buf)), 1, <<>>)

\* get_string_utf16
get_string_utf16(buf) == from_utf16(SubSeq(buf, 1, null_terminator(buf)))

(***************************************************************************)
(* src/src/process_memory.rs: the string reads.                            *)
(***************************************************************************)
\* a byte buffer seen as a [u16] of an x86 (little-endian) build
AsU16(bytes) ==
    [i \in 1..(Len(bytes) \div 2) |-> bytes[2 * i - 1] + 256 * bytes[2 * i]]

\* read_string_utf8: after read_into_uninit_buf, r being its outcome
read_string_utf8_decode(r) ==
    [ret |-> IF r.ret = None THEN None ELSE get_string_utf8(r.ret[1]),
     buf |-> r.ret, ctx |-> r.ctx]

\* Process::read_string_utf8::<N>
read_string_utf8(m, ctx, address, N) ==
    read_string_utf8_decode(
        read_into_uninit_buf(m, ctx, address, Repeat(ctx.uninit, N)))

\* read_string_utf16: after read_into_uninit_buf, r being its outcome
read_string_utf16_decode(r) ==
    [ret |-> IF r.ret = None THEN None ELSE get_string_utf16(AsU16(r.ret[1])),
     buf |-> r.ret, ctx |-> r.ctx]

\* Process::read_string_utf16::<N>: the buffer is N u16, 2 * N bytes
read_string_utf16(m, ctx, address, N) ==
    read_string_utf16_decode(
        read_into_uninit_buf(m, ctx, address, Repeat(ctx.uninit, 2 * N)))

\* read_string_auto: slice::from_raw_parts(buf16.as_ptr() as *const u8,
\* buf16.len()), the first buf16.len() bytes of the buffer
auto_buf8(bytes) == SubSeq(bytes, 1, Len(bytes) \div 2)

\* read_string_auto that looks at the second byte alone
auto_is_utf_16_second(buf8) ==
    IF Len(buf8) >= 2 THEN buf8[2] = 0 ELSE FALSE

\* read_string_auto: `if let [_, second, _, fourth, ..] = buf8`
auto_is_utf_16(buf8) ==
    IF Len(buf8) >= 4 THEN buf8[2] = 0 /\ buf8[4] = 0 ELSE FALSE

\* read_string_auto: after read_into_uninit_buf, r being its outcome
read_string_auto_decode(r) ==
    [ret |-> IF r.ret = None THEN None
             ELSE IF auto_is_utf_16(auto_buf8(r.ret[1]))
             THEN get_string_utf16(AsU16(r.ret[1]))
             ELSE get_string_utf8(auto_buf8(r.ret[1])),
     buf |-> r.ret, ctx |-> r.ctx]

\* Process::read_string_auto::<N>: the buffer is N u16, 2 * N bytes
read_string_auto(m, ctx, address, N) ==
    read_string_auto_decode(
        read_into_uninit_buf(m, ctx, address, Repeat(ctx.uninit, 2 * N)))

\* Process::read_string::<N>
read_string(m, ctx, address, N, string_type) ==
    IF string_type = "UTF8" THEN read_string_utf8(m, ctx, address, N)
    ELSE IF string_type = "UTF16" THEN read_string_utf16(m, ctx, address, N)
    ELSE read_string_auto(m, ctx, address, N)

(***************************************************************************)
(* src/src/process_memory_write.rs                                         *)
(***************************************************************************)
\* Process::write_value that hands the OS a size one byte short
write_value_short(m, address, value, lands) ==
    LET os == WriteProcessMemory(m, address, SubSeq(value, 1, Len(value) - 1), lands)
    IN  [ret |-> os.ret # 0, mem |-> os.mem, bytes_written |-> os.bytes_written]

\* Process::write_value::<T>: value is the value's size_of::<T>() bytes
write_value(m, address, value, lands) ==
    LET os == WriteProcessMemory(m, address, value, lands)
    IN  [ret |-> os.ret # 0, mem |-> os.mem, bytes_written |-> os.bytes_written]

\* Process::write_buf: buf is the caller's slice, as bytes
write_buf(m, address, buf, lands) ==
    LET os == WriteProcessMemory(m, address, buf, lands)
    IN  [ret |-> os.ret # 0, mem |-> os.mem, bytes_written |-> os.bytes_written]

(***************************************************************************)
(* The allocator (process_memory_write.rs). The regions of the target are  *)
(* the OS's: a region lives from the VirtualAllocEx that returns its base  *)
(* to the VirtualFreeEx of that base.                                      *)
(***************************************************************************)
\* VirtualAllocEx(handle, 0, size, MEM_COMMIT, PAGE_EXECUTE_READWRITE): the
\* base of a new region, or 0. pick is where the OS would place the region,
\* 0 when it has no room; a request of 0 bytes fails, and no two live regions
\* share a base
VirtualAllocEx(rs, size, pick) ==
    IF size # 0 /\ pick # Addr(0) /\ pick \notin rs
    THEN [ret |-> pick, regions |-> rs \cup {pick}]
    ELSE [ret |-> Addr(0), regions |-> rs]

\* VirtualFreeEx(handle, address, 0, MEM_RELEASE): non-zero when address is
\* the base of a live region, which it releases
VirtualFreeEx(rs, address) ==
    [ret |-> IF address \in rs THEN 1 ELSE 0, regions |-> rs \ {address}]

allocate_memory_match_any(os) ==
    [ret |-> Some(os.ret), regions |-> os.regions, os |-> os.ret]

\* Process::allocate_memory, the match on the address the OS returned
allocate_memory_match(os) ==
    [ret     |-> IF os.ret = Addr(0) THEN None ELSE Some(os.ret),
     regions |-> os.regions,
     os      |-> os.ret]

\* Process::allocate_memory
allocate_memory(rs, size, pick) ==
    allocate_memory_match(VirtualAllocEx(rs, size, pick))

free_memory_test(os) == [ret |-> os.ret # 0, regions |-> os.regions]

\* Process::free_memory
free_memory(rs, address) == free_memory_test(VirtualFreeEx(rs, address))

(***************************************************************************)
(* The lazily cached metadata (process.rs, process_module.rs). A call's    *)
(* result carries the cache as the call leaves it and the log of the OS    *)
(* queries it made (qlog: whether each succeeded).                         *)
(***************************************************************************)
\* K32GetModuleBaseNameW / K32GetModuleFileNameExW(handle, module, buf,
\* nSize): copies the name's units, nSize at most, into buf and returns how
\* many it copied, 0 for failure (ok = FALSE); the rest of buf stays as it was
K32GetModuleNameW(os_name, ok, buf, nSize) ==
    [ret |-> IF ok THEN Min(Len(os_name), nSize) ELSE 0,
     buf |-> [i \in 1..Len(buf) |->
                 IF ok /\ i <= Min(Len(os_name), nSize) THEN os_name[i] ELSE buf[i]]]

\* K32GetModuleInformation(handle, module, &module_info, size)
K32GetModuleInformation(info, ok) ==
    [ret |-> IF ok THEN 1 ELSE 0, module_info |-> info]

\* the match on len of name_internal / file_name_internal: the units from
\* len on are set to zero
name_internal_match(os) ==
    IF os.ret = 0 THEN None
    ELSE Some([i \in 1..Len(os.buf) |-> IF i > os.ret THEN 0 ELSE os.buf[i]])

\* Process::name_internal and ProcessModule::name_internal
name_internal(os_name, ok, uninit) ==
    name_internal_match(
        K32GetModuleNameW(os_name, ok, Repeat(uninit, BaseNameUnits), BaseNameUnits))

\* ProcessModule::file_name_internal
file_name_internal(os_name, ok, uninit) ==
    name_internal_match(
        K32GetModuleNameW(os_name, ok, Repeat(uninit, FileNameUnits), BaseNameUnits))

name_insert_skip(cache, new_name, qlog) ==
    [ret |-> new_name, cache |-> cache, qlog |-> qlog]

\* if let Some(n_name) = &new_name { name.insert(n_name.clone()) }; new_name
name_insert(cache, new_name, qlog) ==
    [ret   |-> new_name,
     cache |-> IF new_name # None THEN new_name ELSE cache,
     qlog  |-> qlog]

\* get_string_utf16(&name_internal()?), and the store of the name
name_decode(cache, name_bytes, qlog) ==
    IF name_bytes = None
    THEN [ret |-> None, cache |-> cache, qlog |-> qlog]
    ELSE name_insert(cache, get_string_utf16(name_bytes[1]), qlog)

\* Process::get_name
Process_get_name(cache, os_name, ok, uninit) ==
    IF cache # None
    THEN [ret |-> cache, cache |-> cache, qlog |-> <<>>]
    ELSE name_decode(cache, name_internal(os_name, ok, uninit), <<ok>>)

\* ProcessModule::get_name
ProcessModule_get_name(cache, os_name, ok, uninit) ==
    IF cache # None
    THEN [ret |-> cache, cache |-> cache, qlog |-> <<>>]
    ELSE name_decode(cache, name_internal(os_name, ok, uninit), <<ok>>)

\* ProcessModule::get_file_name
get_file_name(cache, os_name, ok, uninit) ==
    IF cache # None
    THEN [ret |-> cache, cache |-> cache, qlog |-> <<>>]
    ELSE name_decode(cache, file_name_internal(os_name, ok, uninit), <<ok>>)

\* the match on K32GetModuleInformation's return, and the set of the cache
\* that follows the ?
get_module_info_match(cache, os, qlog) ==
    IF os.ret = 0
    THEN [ret |-> None, cache |-> cache, qlog |-> qlog]
    ELSE [ret   |-> Some([base_address        |-> os.module_info.lpBaseOfDll,
                          module_memory_size  |-> os.module_info.SizeOfImage,
                          entry_point_address |-> os.module_info.EntryPoint]),
          cache |-> Some([base_address        |-> os.module_info.lpBaseOfDll,
                          module_memory_size  |-> os.module_info.SizeOfImage,
                          entry_point_address |-> os.module_info.EntryPoint]),
          qlog  |-> qlog]

\* ProcessModule::get_module_info
get_module_info(cache, info, ok) ==
    IF cache # None
    THEN [ret |-> cache, cache |-> cache, qlog |-> <<>>]
    ELSE get_module_info_match(cache, K32GetModuleInformation(info, ok), <<ok>>)

(***************************************************************************)
(* Inputs of the calls.                                                    *)
(***************************************************************************)
MaxAddress == Repeat(255, AddrBytes - 1) \o <<127>>
MinAddress == Repeat(0, AddrBytes - 1) \o <<128>>
MaxU32 == Repeat(255, U32Bytes)

\* pointer-sized values found in the target's memory: two pointers into the
\* region and the extremes of isize
PtrVals == <<Addr(Base + 8), Addr(Base), MaxAddress, MinAddress>>

\* the image of target memory whose slots hold PtrVals from the k-th on
Image(k) ==
    [i \in 0..(MemSize - 1) |->
        PtrVals[((i \div 8 + k) % Len(PtrVals)) + 1][(i % 8) + 1]]

\* addresses read: two slots, a range that runs over the end of the region,
\* an unmapped address
AddrInputs == {Addr(Base), Addr(Base + 8), Addr(Base + MemSize - 4), Addr(0)}

\* addresses written: a slot, a range that runs over the end of the writable
\* part, a read-only slot, an unmapped address
WriteAddrInputs ==
    {Addr(Base), Addr(Base + RwSize - 4), Addr(Base + RwSize), Addr(0)}

OffsetInputs == {U32(8), MaxU32}

RECURSIVE SeqsUpTo(_, _)
SeqsUpTo(S, n) ==
    IF n = 0 THEN {<<>>}
    ELSE LET shorter == SeqsUpTo(S, n - 1)
         IN  shorter \cup {Append(q, x) : q \in shorter, x \in S}

OffsetSeqs == SeqsUpTo(OffsetInputs, MaxOffsets)

\* what an uninitialized buffer may hold
UninitInputs == {0, 204}

\* size_of::<T>() of the value types read: u8, u32, u64
SizeInputs == {1, U32Bytes, U64Bytes}

\* size_of::<T>() of the value types written: u32, u64
WriteSizeInputs == {U32Bytes, U64Bytes}

\* values written, as the bytes of a T
ValueInputs(size) == {SubSeq(PtrVals[k], 1, size) : k \in {1, 3}}

\* bytes of the buffers decoded: zero, ASCII, UTF-8 continuation bytes, UTF-8
\* lead bytes of 2, 3 and 4 byte sequences, the high bytes of surrogates
LeadByteInputs == {0, 65, 128, 144, 160, 195, 224, 237, 240, 244, 216, 220}
ThirdByteInputs == {0, 65, 128, 144, 195}
FourthByteInputs == {0, 65, 128, 220}

\* what follows the first four bytes, two bytes repeated
FillInputs == {<<0, 0>>, <<65, 65>>, <<0, 220>>}

\* the image of target memory that holds `head` and then `fill` repeated
StrImage(head, fill) ==
    [i \in 0..(MemSize - 1) |->
        IF i < Len(head) THEN head[i + 1] ELSE fill[(i % 2) + 1]]

\* addresses of the strings read: the head of the region, and four bytes
\* before its end
StrAddrInputs == {Addr(Base), Addr(Base + MemSize - 4)}

StringType == {"UTF8", "UTF16", "Auto"}

NoCall ==
    [op |-> "none", address |-> Addr(0), size |-> 0, offsets |-> <<>>,
     value |-> <<>>, ret |-> None, panic |-> FALSE, buf |-> <<>>,
     qlog |-> <<>>, rlog |-> <<>>, cache0 |-> None, bytes_written |-> 0,
     wrote0 |-> None, string_type |-> "UTF8", pre |-> None]

\* a call as `last` records it
Call(op, ctx) ==
    [NoCall EXCEPT !.op = op, !.cache0 = is_64_bit, !.wrote0 = wrote,
                   !.qlog = ctx.qlog, !.rlog = ctx.rlog]

\* whether the bytes [a, a + n) and [b, b + k) of the address space share a
\* byte; an empty range shares none
Overlap(a, n, b, k) ==
    LET x == a[1] + 256 * a[2]
        y == b[1] + 256 * b[2]
    IN  n > 0 /\ k > 0 /\ x < y + k /\ y < x + n

\* `wrote` after a write of `bytes_written` bytes at `address`
Untouched(address, bytes_written) ==
    IF wrote # None
       /\ ~Overlap(wrote[1].address, Len(wrote[1].value), address, bytes_written)
    THEN wrote ELSE None

(***************************************************************************)
(* The state machine: one action per public operation of Process, and the  *)
(* call's return. Process holds a Cell and a RefCell, so it is not Sync:   *)
(* the calls on one handle come one after the other.                       *)
(***************************************************************************)
\* the caches of a Process and of a ProcessModule as their constructors
\* leave them, over a target whose names are "A"
NoModule == [name |-> None, file_name |-> None, module_info |-> None]
NoTarget ==
    [name |-> <<65>>, file_name |-> <<65>>,
     info |-> [lpBaseOfDll |-> Addr(Base), SizeOfImage |-> U32(8),
               EntryPoint |-> Addr(Base)]]
InitMeta == name = None /\ module = NoModule /\ target = NoTarget

\* no region allocated yet
NoAllocs == [live |-> {}, freed |-> {}]
InitRegions == regions = {} /\ allocated = NoAllocs

\* no handle opened yet
Handle == 1..MaxHandles
NoHandles == [h \in Handle |-> [state |-> "unused", closes |-> 0]]
\* no iterator made yet, over a system with no process to open
NoIter == [pids |-> <<>>, lo |-> 0, hi |-> 0, name |-> None]
Pid == 1..MaxProcs
NoProcesses == [pid \in Pid |-> [grant |-> FALSE, name |-> <<>>]]
InitHandles ==
    /\ handles = NoHandles /\ owned = {}
    /\ processes = NoProcesses /\ iter = NoIter

Init ==
    /\ InitMeta /\ InitRegions /\ InitHandles
    /\ \E k \in 0..(Len(PtrVals) - 1) : mem = Image(k)
    /\ wow64 \in BOOLEAN
    /\ is_64_bit = None
    /\ wrote = None
    /\ last = NoCall

Idle == last.op = "none"

Is64Bit ==
    /\ Idle
    /\ \E q \in BOOLEAN :
        LET r == Process_is_64_bit(wow64, Ctx(is_64_bit, q, 0))
        IN  /\ is_64_bit' = r.ctx.cache
            /\ last' = [Call("is_64_bit", r.ctx) EXCEPT !.ret = r.ret]
            /\ UNCHANGED <<mem, wow64, wrote>>
            /\ UNCHANGED sys

ReadBuf ==
    /\ Idle
    /\ \E a \in AddrInputs, size \in SizeInputs, fill \in UninitInputs :
        LET r == read_buf(mem, Ctx(is_64_bit, TRUE, fill), a, Repeat(fill, size))
        IN  /\ is_64_bit' = r.ctx.cache
            /\ last' = [Call("read_buf", r.ctx) EXCEPT
                            !.address = a, !.size = size, !.ret = r.ret,
                            !.buf = r.buf]
            /\ UNCHANGED <<mem, wow64, wrote>>
            /\ UNCHANGED sys

ReadIntoUninitBuf ==
    /\ Idle
    /\ \E a \in AddrInputs, size \in SizeInputs, u \in UninitInputs :
        LET r == read_into_uninit_buf(mem, Ctx(is_64_bit, TRUE, u), a,
                                      Repeat(u, size))
        IN  /\ is_64_bit' = r.ctx.cache
            /\ last' = [Call("read_into_uninit_buf", r.ctx) EXCEPT
                            !.address = a, !.size = size, !.ret = r.ret]
            /\ UNCHANGED <<mem, wow64, wrote>>
            /\ UNCHANGED sys

ReadValue ==
    /\ Idle
    /\ \E a \in AddrInputs \cup WriteAddrInputs, size \in SizeInputs,
          u \in UninitInputs :
        LET r == read_value(mem, Ctx(is_64_bit, TRUE, u), a, size)
        IN  /\ is_64_bit' = r.ctx.cache
            /\ last' = [Call("read_value", r.ctx) EXCEPT
                            !.address = a, !.size = size, !.ret = r.ret]
            /\ UNCHANGED <<mem, wow64, wrote>>
            /\ UNCHANGED sys

ReadPointer ==
    /\ Idle
    /\ \E a \in AddrInputs, q \in BOOLEAN, u \in UninitInputs :
        LET r == read_pointer(mem, wow64, Ctx(is_64_bit, q, u), a)
        IN  /\ is_64_bit' = r.ctx.cache
            /\ last' = [Call("read_pointer", r.ctx) EXCEPT
                            !.address = a, !.ret = r.ret]
            /\ UNCHANGED <<mem, wow64, wrote>>
            /\ UNCHANGED sys

DerefOffsets ==
    /\ Idle
    /\ \E a \in AddrInputs, offs \in OffsetSeqs, q \in BOOLEAN,
          u \in UninitInputs, checks \in BOOLEAN :
        LET r == deref_offsets(mem, wow64, Ctx(is_64_bit, q, u), a, offs, checks)
        IN  /\ is_64_bit' = r.ctx.cache
            /\ last' = [Call("deref_offsets", r.ctx) EXCEPT
                            !.address = a, !.offsets = offs, !.ret = r.ret,
                            !.panic = r.panic]
            /\ UNCHANGED <<mem, wow64, wrote>>
            /\ UNCHANGED sys

WriteValue ==
    /\ Idle
    /\ \E a \in WriteAddrInputs, size \in WriteSizeInputs, lands \in BOOLEAN :
        \E v \in ValueInputs(size) :
            LET r == write_value(mem, a, v, lands)
            IN  /\ mem' = r.mem
                /\ wrote' = IF r.ret THEN Some([address |-> a, value |-> v])
                            ELSE Untouched(a, r.bytes_written)
                /\ last' = [Call("write_value", Ctx(is_64_bit, TRUE, 0)) EXCEPT
                                !.address = a, !.size = size, !.value = v,
                                !.ret = r.ret, !.bytes_written = r.bytes_written]
                /\ UNCHANGED <<wow64, is_64_bit>>
                /\ UNCHANGED sys

WriteBuf ==
    /\ Idle
    /\ \E a \in WriteAddrInputs, size \in WriteSizeInputs, lands \in BOOLEAN :
        \E v \in ValueInputs(size) :
            LET r == write_buf(mem, a, v, lands)
            IN  /\ mem' = r.mem
                /\ wrote' = Untouched(a, r.bytes_written)
                /\ last' = [Call("write_buf", Ctx(is_64_bit, TRUE, 0)) EXCEPT
                                !.address = a, !.size = size, !.value = v,
                                !.ret = r.ret, !.bytes_written = r.bytes_written]
                /\ UNCHANGED <<wow64, is_64_bit>>
                /\ UNCHANGED sys

ReadString ==
    /\ Idle
    /\ \E a \in StrAddrInputs, N \in 1..MaxN, t \in StringType,
          u \in UninitInputs :
        LET r == read_string(mem, Ctx(is_64_bit, TRUE, u), a, N, t)
        IN  /\ is_64_bit' = r.ctx.cache
            /\ last' = [Call("read_string", r.ctx) EXCEPT
                            !.address = a, !.size = N, !.string_type = t,
                            !.ret = r.ret, !.buf = r.buf]
            /\ UNCHANGED <<mem, wow64, wrote>>
            /\ UNCHANGED sys

\* the call returns: its result goes to the caller
Return ==
    /\ ~Idle
    /\ last' = NoCall
    /\ UNCHANGED <<mem, wow64, is_64_bit, wrote>>
    /\ UNCHANGED sys

Next ==
    \/ Is64Bit
    \/ ReadBuf
    \/ ReadIntoUninitBuf
    \/ ReadValue
    \/ ReadPointer
    \/ DerefOffsets
    \/ WriteValue
    \/ WriteBuf
    \/ ReadString
    \/ Return

Spec == Init /\ [][Next]_vars

(***************************************************************************)
(* The string reads, on target memory that holds byte buffers.             *)
(***************************************************************************)
InitStr ==
    /\ InitMeta /\ InitRegions /\ InitHandles
    /\ \E b1 \in LeadByteInputs, b2 \in LeadByteInputs, b3 \in ThirdByteInputs,
          b4 \in FourthByteInputs, fill \in FillInputs :
          mem = StrImage(<<b1, b2, b3, b4>>, fill)
    /\ wow64 = FALSE
    /\ is_64_bit = None
    /\ wrote = None
    /\ last = NoCall

NextStr ==
    \/ ReadString
    \/ Return

SpecStr == InitStr /\ [][NextStr]_vars

(***************************************************************************)
(* The allocator: allocate_memory and free_memory on one handle. Only the  *)
(* calls of the handle change the regions of the target.                   *)
(***************************************************************************)
\* the base of the k-th place the OS has for a region (64 KiB apart)
RegionBase(k) == <<0, 0, k>> \o Repeat(0, AddrBytes - 3)
AllocBases == {RegionBase(k) : k \in 1..MaxRegions}
\* the base of a region the target committed by itself
ForeignBase == RegionBase(MaxRegions + 1)
\* size: usize of allocate_memory
AllocSizeInputs == {0, 4096}
\* where the OS would place the next region; 0: nowhere
PickInputs == AllocBases \cup {Addr(0)}
\* address: Address of free_memory: the bases, a foreign base, null, and an
\* address that is no base
FreeAddrInputs == AllocBases \cup {ForeignBase, Addr(0), Addr(Base)}

InitAlloc ==
    /\ InitMeta /\ InitHandles
    /\ mem = Image(0)
    /\ wow64 = FALSE
    /\ is_64_bit = None
    /\ wrote = None
    /\ last = NoCall
    /\ regions \in {{}, {ForeignBase}}
    /\ allocated = NoAllocs

AllocateMemory ==
    /\ Idle
    /\ \E size \in AllocSizeInputs, pick \in PickInputs :
        LET r == allocate_memory(regions, size, pick)
        IN  /\ regions' = r.regions
            /\ allocated' =
                  IF r.ret = None THEN allocated
                  ELSE [live  |-> allocated.live \cup {r.ret[1]},
                        freed |-> allocated.freed \ {r.ret[1]}]
            /\ last' = [Call("allocate_memory", Ctx(is_64_bit, TRUE, 0)) EXCEPT
                            !.size = size, !.value = r.os, !.ret = r.ret,
                            !.pre = Some(allocated)]
            /\ UNCHANGED <<mem, wow64, is_64_bit, wrote>>
            /\ UNCHANGED <<name, module, target, handles, owned, processes, iter>>

FreeMemory ==
    /\ Idle
    /\ \E a \in FreeAddrInputs :
        LET r == free_memory(regions, a)
        IN  /\ regions' = r.regions
            /\ allocated' =
                  IF a \in allocated.live
                  THEN [live  |-> allocated.live \ {a},
                        freed |-> allocated.freed \cup {a}]
                  ELSE allocated
            /\ last' = [Call("free_memory", Ctx(is_64_bit, TRUE, 0)) EXCEPT
                            !.address = a, !.ret = r.ret,
                            !.pre = Some(allocated)]
            /\ UNCHANGED <<mem, wow64, is_64_bit, wrote>>
            /\ UNCHANGED <<name, module, target, handles, owned, processes, iter>>

NextAlloc ==
    \/ AllocateMemory
    \/ FreeMemory
    \/ Return

SpecAlloc == InitAlloc /\ [][NextAlloc]_vars

(***************************************************************************)
(* The life of the handles (process.rs): get_processes opens one per        *)
(* process it yields, a Process value owns its handle until it is dropped,  *)
(* and the methods borrow the value. Process is neither Clone nor Copy and  *)
(* its handle field is private to the crate, so a handle has one owner.     *)
(***************************************************************************)
\* OpenProcess(ACCESS_TYPE, 0, pid): a handle not handed out before, or 0
\* when the OS refuses (grant = FALSE) or has none left
OpenProcess(hs, grant) ==
    LET unused == {h \in Handle : hs[h].state = "unused"}
        h == IF unused = {} THEN 0 ELSE CHOOSE x \in unused : \A y \in unused : x <= y
    IN  IF grant /\ h # 0
        THEN [ret |-> h, handles |-> [hs EXCEPT ![h].state = "open"]]
        ELSE [ret |-> 0, handles |-> hs]

\* CloseHandle(handle)
CloseHandle(hs, h) ==
    [hs EXCEPT ![h].state = "closed", ![h].closes = @ + 1]

drop_leak(hs, h) == hs

\* <Process as Drop>::drop
drop(hs, h) == CloseHandle(hs, h)

\* Process::is_open: success is GetExitCodeProcess's return, exit_code what it
\* stores, wait what WaitForSingleObject(handle, 0) returns
is_open(success, exit_code, wait) ==
    IF success = 0 THEN None
    ELSE IF exit_code = "STILL_ACTIVE"
         THEN IF wait = "WAIT_FAILED" THEN None
              ELSE IF wait = "WAIT_TIMEOUT" THEN Some(TRUE)
              ELSE Some(FALSE)
         ELSE Some(FALSE)

\* K32EnumProcesses(pid_process, cb, &lpcneeded): stores the pids that fit in
\* cb bytes and the bytes it stored; ok is whether it succeeds
K32EnumProcesses(table, ok, cb) ==
    LET n == Min(Cardinality(DOMAIN table), cb \div U32Bytes)
    IN  [ret       |-> IF ok THEN 1 ELSE 0,
         pids      |-> IF ok THEN [i \in 1..n |-> i] ELSE <<>>,
         lpcneeded |-> IF ok THEN n * U32Bytes ELSE 0]

\* Process::get_processes, from the return of K32EnumProcesses on: the
\* iterator over 0..no_of_processes, which has opened nothing yet
get_processes_range(os) ==
    [pids |-> os.pids,
     lo   |-> 0,
     hi   |-> IF os.ret # 0 THEN os.lpcneeded \div U32Bytes ELSE 0,
     name |-> None]

\* Process::get_processes
get_processes(table, ok) ==
    get_processes_range(K32EnumProcesses(table, ok, MAX_PROCESSES))

\* name.encode_utf16(): the units of each char in turn (the string is split
\* in halves to keep the evaluation shallow)
RECURSIVE encode_utf16(_)
encode_utf16(str) ==
    IF str = <<>> THEN <<>>
    ELSE IF Len(str) = 1
    THEN (IF str[1] < 65536 THEN <<str[1]>>
          ELSE <<55296 + ((str[1] - 65536) \div 1024),
                 56320 + ((str[1] - 65536) % 1024)>>)
    ELSE encode_utf16(SubSeq(str, 1, Len(str) \div 2))
         \o encode_utf16(SubSeq(str, (Len(str) \div 2) + 1, Len(str)))

\* name_as_array of get_processes_by_name: the units of the name, then zero
\* from the index name.chars().count() on. The write of a unit beyond the
\* array is an index out of bounds: a panic, in every build, and no array
name_as_array_fill(str, units, uninit) ==
    IF Len(units) > BaseNameUnits
    THEN [panic |-> TRUE, array |-> <<>>]
    ELSE [panic |-> FALSE,
          array |-> [i \in 1..BaseNameUnits |->
                        IF i > Len(str) THEN 0
                        ELSE IF i <= Len(units) THEN units[i]
                        ELSE uninit]]

name_as_array(str, uninit) == name_as_array_fill(str, encode_utf16(str), uninit)

\* Process::get_processes_by_name, once name_as_array is built: the iterator
\* of get_processes, filtered; a panic above leaves K32EnumProcesses
\* uncalled and returns no iterator
get_processes_by_name_filter(table, ok, built) ==
    IF built.panic
    THEN [panic |-> TRUE, iter |-> NoIter, qlog |-> <<>>]
    ELSE [panic |-> FALSE,
          iter  |-> [get_processes(table, ok) EXCEPT !.name = Some(built.array)],
          qlog  |-> <<ok>>]

\* Process::get_processes_by_name
get_processes_by_name(table, ok, str, uninit) ==
    get_processes_by_name_filter(table, ok, name_as_array(str, uninit))

\* proc.name_internal().is_some_and(|val| val.eq(&name))
name_filter(name_bytes, wanted) == name_bytes # None /\ name_bytes[1] = wanted

\* next() / next_back() of the iterator: it opens the pids of its range one by
\* one, from the front or from the back, skips those OpenProcess refuses and
\* drops the Process whose name the filter rejects, until it has a Process to
\* yield or the range is empty
RECURSIVE iter_next(_, _, _, _, _)
RECURSIVE iter_next_opened(_, _, _, _, _, _)
iter_next(hs, it, table, back, uninit) ==
    IF it.lo >= it.hi
    THEN [ret |-> None, handles |-> hs, iter |-> it]
    ELSE iter_next_opened(
             OpenProcess(hs, table[it.pids[IF back THEN it.hi ELSE it.lo + 1]].grant),
             IF back THEN [it EXCEPT !.hi = @ - 1] ELSE [it EXCEPT !.lo = @ + 1],
             table, it.pids[IF back THEN it.hi ELSE it.lo + 1], back, uninit)

\* the closure of filter_map on the handle OpenProcess returned, and the
\* filter on the Process it made
iter_next_opened(os, rest, table, pid, back, uninit) ==
    IF os.ret = 0
    THEN iter_next(os.handles, rest, table, back, uninit)
    ELSE IF rest.name = None
            \/ name_filter(name_internal(table[pid].name, TRUE, uninit), rest.name[1])
    THEN [ret     |-> Some([handle |-> os.ret, name |-> None, is_64_bit |-> None]),
          handles |-> os.handles,
          iter    |-> rest]
    ELSE iter_next(drop(os.handles, os.ret), rest, table, back, uninit)

(***************************************************************************)
(* The calls that open and close handles.                                  *)
(***************************************************************************)
\* a process of the system: one OpenProcess refuses, or one it grants, named
\* "A", "B", or one whose name query fails
ProcessInputs ==
    {[grant |-> FALSE, name |-> <<65>>], [grant |-> TRUE, name |-> <<65>>],
     [grant |-> TRUE, name |-> <<66>>], [grant |-> TRUE, name |-> <<>>]}
\* name: &str of get_processes_by_name: "A", "B", U+1F600, and a name one
\* unit longer than name_as_array
NameArgInputs == {<<65>>, <<66>>, <<128512>>, Repeat(65, BaseNameUnits + 1)}

\* the handles never handed out
Unused == {h \in Handle : handles[h].state = "unused"}

\* the handle table and the owners before a call
LifeBefore == Some([handles |-> handles, owned |-> owned])

InitLife ==
    /\ InitMeta /\ InitRegions
    /\ mem = Image(0)
    /\ wow64 = FALSE
    /\ is_64_bit = None
    /\ wrote = None
    /\ last = NoCall
    /\ handles = NoHandles
    /\ owned = {}
    /\ iter = NoIter
    /\ processes \in [Pid -> ProcessInputs]

GetProcesses ==
    /\ Idle
    /\ \E ok \in BOOLEAN :
        /\ iter' = get_processes(processes, ok)
        /\ last' = [Call("get_processes", Ctx(is_64_bit, TRUE, 0)) EXCEPT
                        !.qlog = <<ok>>, !.pre = LifeBefore]
    /\ UNCHANGED <<mem, wow64, is_64_bit, wrote>>
    /\ UNCHANGED <<name, module, target, regions, allocated>>
    /\ UNCHANGED <<handles, owned, processes>>

GetProcessesByName ==
    /\ Idle
    /\ \E ok \in BOOLEAN, str \in NameArgInputs, u \in UninitInputs :
        LET r == get_processes_by_name(processes, ok, str, u)
        IN  /\ iter' = IF r.panic THEN iter ELSE r.iter
            /\ last' = [Call("get_processes_by_name", Ctx(is_64_bit, TRUE, u)) EXCEPT
                            !.qlog = r.qlog, !.value = str, !.panic = r.panic,
                            !.pre = LifeBefore]
    /\ UNCHANGED <<mem, wow64, is_64_bit, wrote>>
    /\ UNCHANGED <<name, module, target, regions, allocated>>
    /\ UNCHANGED <<handles, owned, processes>>

\* next() of the iterator, or next_back() of the one get_processes returned;
\* the OS has a handle for every process left in the range. name_internal
\* writes every unit of its buffer before it is read, so what the buffer
\* held does not show: it starts as zeros here
IterNext ==
    /\ Idle
    /\ Cardinality(Unused) >= iter.hi - iter.lo
    /\ \E back \in BOOLEAN :
        /\ back => iter.name = None
        /\ LET r == iter_next(handles, iter, processes, back, 0)
           IN  /\ handles' = r.handles
               /\ iter' = r.iter
               /\ owned' = IF r.ret = None THEN owned
                           ELSE owned \cup {r.ret[1].handle}
               /\ last' = [Call(IF back THEN "next_back" ELSE "next",
                                Ctx(is_64_bit, TRUE, 0)) EXCEPT
                               !.ret = r.ret, !.pre = LifeBefore]
    /\ UNCHANGED <<mem, wow64, is_64_bit, wrote>>
    /\ UNCHANGED <<name, module, target, regions, allocated, processes>>

\* a call of is_open on a Process that is alive
IsOpen ==
    /\ Idle
    /\ \E h \in owned, success \in {0, 1},
          exit_code \in {"STILL_ACTIVE", "EXITED"},
          wait \in {"WAIT_FAILED", "WAIT_TIMEOUT", "WAIT_OBJECT_0"} :
        last' = [Call("is_open", Ctx(is_64_bit, TRUE, 0)) EXCEPT
                    !.value = <<h>>, !.ret = is_open(success, exit_code, wait),
                    !.pre = LifeBefore]
    /\ UNCHANGED <<mem, wow64, is_64_bit, wrote>>
    /\ UNCHANGED sys

\* the owner of a Process lets go of it
Drop ==
    /\ Idle
    /\ \E h \in owned :
        /\ handles' = drop(handles, h)
        /\ owned' = owned \ {h}
        /\ last' = [Call("drop", Ctx(is_64_bit, TRUE, 0)) EXCEPT
                        !.value = <<h>>, !.pre = LifeBefore]
    /\ UNCHANGED <<mem, wow64, is_64_bit, wrote>>
    /\ UNCHANGED <<name, module, target, regions, allocated, processes, iter>>

NextLife ==
    \/ GetProcesses
    \/ GetProcessesByName
    \/ IterNext
    \/ IsOpen
    \/ Drop
    \/ Return

SpecLife == InitLife /\ [][NextLife]_vars

(***************************************************************************)
(* The metadata queries on a Process and on one ProcessModule of it. The   *)
(* names and the MODULEINFO of the target do not change while it lives.    *)
(***************************************************************************)
\* names the OS holds, as UTF-16 units: "A", an unpaired leading surrogate,
\* and a surrogate pair
NameInputs == {<<65>>, <<55357>>, <<55357, 56832>>}
\* file names: "C:" and an unpaired leading surrogate
FileNameInputs == {<<67, 58>>, <<55357>>}
InfoInputs ==
    {[lpBaseOfDll |-> Addr(Base), SizeOfImage |-> U32(8), EntryPoint |-> Addr(Base + 8)],
     [lpBaseOfDll |-> MinAddress, SizeOfImage |-> MaxU32, EntryPoint |-> MaxAddress]}

InitMetadata ==
    /\ InitRegions /\ InitHandles
    /\ mem = Image(0)
    /\ wow64 = FALSE
    /\ is_64_bit = None
    /\ wrote = None
    /\ last = NoCall
    /\ name = None
    /\ module = NoModule
    /\ \E n \in NameInputs, f \in FileNameInputs, i \in InfoInputs :
          target = [name |-> n, file_name |-> f, info |-> i]

GetName ==
    /\ Idle
    /\ \E ok \in BOOLEAN, u \in UninitInputs :
        LET r == Process_get_name(name, target.name, ok, u)
        IN  /\ name' = r.cache
            /\ last' = [Call("get_name", Ctx(is_64_bit, TRUE, u)) EXCEPT
                            !.ret = r.ret, !.qlog = r.qlog, !.pre = Some(name)]
    /\ UNCHANGED <<mem, wow64, is_64_bit, wrote>>
    /\ UNCHANGED <<module, target, regions, allocated, handles, owned, processes, iter>>

ModuleGetName ==
    /\ Idle
    /\ \E ok \in BOOLEAN, u \in UninitInputs :
        LET r == ProcessModule_get_name(module.name, target.name, ok, u)
        IN  /\ module' = [module EXCEPT !.name = r.cache]
            /\ last' = [Call("module_get_name", Ctx(is_64_bit, TRUE, u)) EXCEPT
                            !.ret = r.ret, !.qlog = r.qlog,
                            !.pre = Some(module.name)]
    /\ UNCHANGED <<mem, wow64, is_64_bit, wrote>>
    /\ UNCHANGED <<name, target, regions, allocated, handles, owned, processes, iter>>

ModuleGetFileName ==
    /\ Idle
    /\ \E ok \in BOOLEAN, u \in UninitInputs :
        LET r == get_file_name(module.file_name, target.file_name, ok, u)
        IN  /\ module' = [module EXCEPT !.file_name = r.cache]
            /\ last' = [Call("get_file_name", Ctx(is_64_bit, TRUE, u)) EXCEPT
                            !.ret = r.ret, !.qlog = r.qlog,
                            !.pre = Some(module.file_name)]
    /\ UNCHANGED <<mem, wow64, is_64_bit, wrote>>
    /\ UNCHANGED <<name, target, regions, allocated, handles, owned, processes, iter>>

GetModuleInfo ==
    /\ Idle
    /\ \E ok \in BOOLEAN :
        LET r == get_module_info(module.module_info, target.info, ok)
        IN  /\ module' = [module EXCEPT !.module_info = r.cache]
            /\ last' = [Call("get_module_info", Ctx(is_64_bit, TRUE, 0)) EXCEPT
                            !.ret = r.ret, !.qlog = r.qlog,
                            !.pre = Some(module.module_info)]
    /\ UNCHANGED <<mem, wow64, is_64_bit, wrote>>
    /\ UNCHANGED <<name, target, regions, allocated, handles, owned, processes, iter>>

NextMetadata ==
    \/ GetName
    \/ ModuleGetName
    \/ ModuleGetFileName
    \/ GetModuleInfo
    \/ Return

SpecMetadata == InitMetadata /\ [][NextMetadata]_vars

(***************************************************************************)
(* The reads of a handle among the calls that set its caches.              *)
(***************************************************************************)
InitFrame ==
    /\ InitMeta /\ InitRegions /\ InitHandles
    /\ mem \in {Image(0), Image(1)}
    /\ wow64 \in BOOLEAN
    /\ is_64_bit = None
    /\ wrote = None
    /\ last = NoCall

NextFrame ==
    \/ Is64Bit
    \/ GetName
    \/ ReadBuf
    \/ ReadIntoUninitBuf
    \/ ReadValue
    \/ ReadPointer
    \/ DerefOffsets
    \/ ReadString
    \/ Return

SpecFrame == InitFrame /\ [][NextFrame]_vars

(***************************************************************************)
(* The properties.                                                         *)
(***************************************************************************)
\* whether the OS answered the pointer-width queries of the call `last` records
LastQueryOk == IF last.qlog = <<>> THEN TRUE ELSE last.qlog[1]

\* the context the call `last` records began in
LastCtx == Ctx(last.cache0, LastQueryOk, 0)

\* whether the i-th transfer of the call moved fewer bytes than requested
ShortRead(i) == last.rlog[i].bytes_read < last.rlog[i].size

\* C1: when the OS pointer-width query fails, is_64_bit returns absent and
\* leaves the bitness cache unset; a later call queries again and, the query
\* succeeding, returns the real width, so the cache only ever holds the real
\* width. (The code answers Some(false) to a failed query and caches it.)
C1_FailureNotCached ==
    /\ last.op = "is_64_bit" /\ last.qlog = <<FALSE>>
           => last.ret = None /\ is_64_bit = None
    /\ last.op = "is_64_bit" /\ last.qlog = <<TRUE>>
           => last.ret = Some(~wow64)
    /\ is_64_bit # None => is_64_bit = Some(~wow64)

\* a call made with the bitness cache set leaves it as it was, makes no
\* pointer-width query, answers the cached b when it is is_64_bit, and reads
\* pointers of the width b stands for when it is read_pointer or deref_offsets
C2_CallWithCacheSet ==
    last.op # "none" /\ last.cache0 # None =>
        /\ is_64_bit = last.cache0
        /\ last.qlog = <<>>
        /\ last.op = "is_64_bit" => last.ret = last.cache0
        /\ last.op \in {"read_pointer", "deref_offsets"} =>
             \A i \in DOMAIN last.rlog :
                last.rlog[i].size = IF last.cache0[1] THEN U64Bytes ELSE U32Bytes

\* C2: once the bitness cache holds Some(b), no step changes it, and every
\* later is_64_bit call, direct or made inside read_pointer / deref_offsets,
\* answers the same b and makes no further pointer-width query.
C2_BitnessMemoized ==
    /\ []C2_CallWithCacheSet
    /\ [][is_64_bit # None => is_64_bit' = is_64_bit]_vars

C2_Witness ==
    /\ last.op = "is_64_bit"
    /\ last.cache0 = Some(TRUE)
    /\ last.ret = Some(TRUE)

\* C3: read_pointer on a handle with no cached bitness, the OS query failing,
\* returns absent and reads no memory. (The code, C1, takes the failed query
\* for a 32-bit target and reads 4 bytes.)
C3_AbsentWithoutBitness ==
    last.op = "read_pointer" /\ last.cache0 = None /\ last.qlog = <<FALSE>>
        => last.ret = None /\ last.rlog = <<>>

\* the address `offsets` leads to from address `a`, each offset added to the
\* pointer read before it and the sum dereferenced: the outcome of the last
\* read_pointer
RECURSIVE ChainTarget(_, _, _)
ChainTarget(c, a, offsets) ==
    IF offsets = <<>>
    THEN read_pointer(mem, wow64, c, a)
    ELSE LET p == ChainTarget(c, a, SubSeq(offsets, 1, Len(offsets) - 1))
         IN  IF p.ret = None THEN p
             ELSE read_pointer(mem, wow64, p.ctx,
                    WrappingAdd(p.ret[1], AsAddress(offsets[Len(offsets)])))

\* C4: a deref_offsets call that returns gives, for no offset, what
\* read_pointer gives at the address; for one offset o, that pointer plus o;
\* for o1..on, the pointer reached by dereferencing the address and then each
\* of o1..o(n-1) added to the pointer before it, plus on, not dereferenced.
C4_PointerChain ==
    last.op = "deref_offsets" /\ ~last.panic =>
        LET n == Len(last.offsets)
            p == ChainTarget(LastCtx, last.address, SubSeq(last.offsets, 1, n - 1))
            first == read_pointer(mem, wow64, LastCtx, last.address)
        IN  /\ n = 0 => last.ret = first.ret
            /\ n = 1 => last.ret =
                  IF first.ret = None THEN None
                  ELSE Some(WrappingAdd(first.ret[1], AsAddress(last.offsets[1])))
            /\ n >= 1 => last.ret =
                  IF p.ret = None THEN None
                  ELSE Some(WrappingAdd(p.ret[1], AsAddress(last.offsets[n])))
            /\ Len(last.rlog) <= IF n = 0 THEN 1 ELSE n

C4_Witness ==
    /\ last.op = "deref_offsets"
    /\ Len(last.offsets) = 2
    /\ Len(last.rlog) = 2
    /\ last.ret # None

\* C5: in a deref_offsets call a read that fails is the last read made and the
\* call returns absent; a call that returns an address has made every
\* dereference of the chain, each in full.
C5_ChainAborts ==
    last.op = "deref_offsets" =>
        /\ \A i \in DOMAIN last.rlog :
              ShortRead(i) => i = Len(last.rlog) /\ last.ret = None
        /\ last.ret # None =>
              /\ Len(last.rlog) = IF last.offsets = <<>> THEN 1 ELSE Len(last.offsets)
              /\ \A i \in DOMAIN last.rlog : ~ShortRead(i)

C5_Witness ==
    /\ last.op = "deref_offsets"
    /\ Len(last.offsets) = 2
    /\ Len(last.rlog) = 2
    /\ ~ShortRead(1)
    /\ ShortRead(2)
    /\ last.ret = None

\* C6: a read_value of type T at the address of the last write_value of a T
\* that succeeded, no write having touched the range since, returns the
\* value written.
C6_RoundTrip ==
    /\ last.op = "read_value"
    /\ wrote # None
    /\ wrote[1].address = last.address
    /\ Len(wrote[1].value) = last.size
    => last.ret = Some(wrote[1].value)

C6_Witness ==
    /\ last.op = "read_value"
    /\ wrote # None
    /\ wrote[1].address = last.address
    /\ Len(wrote[1].value) = last.size
    /\ last.ret = Some(wrote[1].value)
    /\ last.size = U64Bytes

\* C7: a call one of whose transfers moves fewer bytes than requested reports
\* failure: read_buf false, read_into_uninit_buf, read_value, read_pointer and
\* deref_offsets absent, write_value and write_buf false.
C7_ShortTransferFails ==
    /\ last.op = "read_buf" /\ (\E i \in DOMAIN last.rlog : ShortRead(i))
           => last.ret = FALSE
    /\ last.op \in {"read_into_uninit_buf", "read_value", "read_pointer",
                    "deref_offsets"}
       /\ (\E i \in DOMAIN last.rlog : ShortRead(i))
           => last.ret = None
    /\ last.op \in {"write_value", "write_buf"}
       /\ last.bytes_written < last.size
           => last.ret = FALSE

C7_Witness ==
    /\ last.op = "read_pointer"
    /\ Len(last.rlog) = 1
    /\ last.rlog[1].bytes_read > 0
    /\ ShortRead(1)
    /\ last.ret = None

\* the read_string call `last` records, in the mode t, its read having succeeded
StringRead(t) ==
    /\ last.op = "read_string"
    /\ last.string_type = t
    /\ last.buf # None

\* C8: read_string_auto returns what UTF-16 mode returns on the buffer when
\* the 2nd and 4th bytes of the raw buffer are both zero, and what UTF-8 mode
\* of the same capacity returns otherwise. (The code looks for the two bytes
\* in the first N of the 2 * N bytes read, and finds no 4th byte when N < 4.)
C8_AutoSelection ==
    StringRead("Auto") =>
        LET raw == last.buf[1]
        IN  IF raw[2] = 0 /\ Len(raw) >= 4 /\ raw[4] = 0
            THEN last.ret = get_string_utf16(AsU16(raw))
            ELSE last.ret = get_string_utf8(SubSeq(raw, 1, last.size))

\* a byte buffer that holds ASCII text and then zero bytes only, to its end
IsAsciiZ(b) ==
    \E k \in 0..Len(b) :
        /\ \A i \in 1..k : b[i] >= 1 /\ b[i] <= 127
        /\ \A i \in (k + 1)..Len(b) : b[i] = 0

\* the bytes of b before its first zero byte
TextOf(b) == SubSeq(b, 1, Cardinality({i \in 1..Len(b) : \A j \in 1..i : b[j] # 0}))

\* C9: on a buffer of N bytes that holds ASCII text and then zero bytes only,
\* read_string in Auto mode, its read succeeding, returns what read_string
\* in UTF-8 mode returns at the same address and capacity: the text.
C9_AutoIsUtf8OnAscii ==
    StringRead("Auto") /\ IsAsciiZ(SubSeq(last.buf[1], 1, last.size)) =>
        LET utf8 == read_string(mem, LastCtx, last.address, last.size, "UTF8")
        IN  /\ utf8.buf # None
            /\ last.ret = utf8.ret
            /\ last.ret = Some(TextOf(SubSeq(last.buf[1], 1, last.size)))

C9_Witness ==
    /\ StringRead("Auto")
    /\ last.size = 4
    /\ SubSeq(last.buf[1], 1, 6) = <<65, 0, 0, 0, 65, 65>>
    /\ last.ret = Some(<<65>>)

\* a Unicode scalar value
IsScalar(c) == c >= 0 /\ c <= 1114111 /\ ~(c >= 55296 /\ c <= 57343)

\* the UTF-8 encoding of a scalar value
Utf8OfChar(c) ==
    IF c < 128 THEN <<c>>
    ELSE IF c < 2048 THEN <<192 + (c \div 64), 128 + (c % 64)>>
    ELSE IF c < 65536
    THEN <<224 + (c \div 4096), 128 + ((c \div 64) % 64), 128 + (c % 64)>>
    ELSE <<240 + (c \div 262144), 128 + ((c \div 4096) % 64),
           128 + ((c \div 64) % 64), 128 + (c % 64)>>

\* the UTF-16 encoding of a scalar value
Utf16OfChar(c) ==
    IF c < 65536 THEN <<c>>
    ELSE <<55296 + ((c - 65536) \div 1024), 56320 + ((c - 65536) % 1024)>>

RECURSIVE Utf8Of(_)
Utf8Of(str) == IF str = <<>> THEN <<>> ELSE Utf8OfChar(Head(str)) \o Utf8Of(Tail(str))

RECURSIVE Utf16Of(_)
Utf16Of(str) == IF str = <<>> THEN <<>> ELSE Utf16OfChar(Head(str)) \o Utf16Of(Tail(str))

\* well-formed UTF-8 (the Unicode standard's table 3-7), from the i-th byte on
RECURSIVE WellFormedUtf8(_, _)
WellFormedUtf8(b, i) ==
    LET in(k, lo, hi) == i + k <= Len(b) /\ b[i + k] >= lo /\ b[i + k] <= hi
    IN  \/ i > Len(b)
        \/ in(0, 0, 127) /\ WellFormedUtf8(b, i + 1)
        \/ in(0, 194, 223) /\ in(1, 128, 191) /\ WellFormedUtf8(b, i + 2)
        \/ /\ \/ in(0, 224, 224) /\ in(1, 160, 191)
              \/ in(0, 225, 236) /\ in(1, 128, 191)
              \/ in(0, 237, 237) /\ in(1, 128, 159)
              \/ in(0, 238, 239) /\ in(1, 128, 191)
           /\ in(2, 128, 191)
           /\ WellFormedUtf8(b, i + 3)
        \/ /\ \/ in(0, 240, 240) /\ in(1, 144, 191)
              \/ in(0, 241, 243) /\ in(1, 128, 191)
              \/ in(0, 244, 244) /\ in(1, 128, 143)
           /\ in(2, 128, 191)
           /\ in(3, 128, 191)
           /\ WellFormedUtf8(b, i + 4)

\* well-formed UTF-16: every leading surrogate is followed by a trailing one,
\* every trailing surrogate follows a leading one
WellFormedUtf16(u) ==
    \A i \in 1..Len(u) :
        /\ u[i] >= 55296 /\ u[i] <= 56319
               => i < Len(u) /\ u[i + 1] >= 56320 /\ u[i + 1] <= 57343
        /\ u[i] >= 56320 /\ u[i] <= 57343
               => i > 1 /\ u[i - 1] >= 55296 /\ u[i - 1] <= 56319

\* C10: in UTF-8 mode and in UTF-16 mode a read_string whose read succeeds
\* returns the string whose encoding is exactly the units before the first
\* zero unit (all of them when there is none), when those units are well
\* formed in the encoding, and absent when they are not.
C10_StrictPrefix ==
    /\ StringRead("UTF8") =>
        LET text == TextOf(last.buf[1])
        IN  IF WellFormedUtf8(text, 1)
            THEN /\ last.ret # None
                 /\ \A i \in DOMAIN last.ret[1] : IsScalar(last.ret[1][i])
                 /\ Utf8Of(last.ret[1]) = text
            ELSE last.ret = None
    /\ StringRead("UTF16") =>
        LET text == TextOf(AsU16(last.buf[1]))
        IN  IF WellFormedUtf16(text)
            THEN /\ last.ret # None
                 /\ \A i \in DOMAIN last.ret[1] : IsScalar(last.ret[1][i])
                 /\ Utf16Of(last.ret[1]) = text
            ELSE last.ret = None

\* a UTF-16 read of four units: "A", the zero unit, and two unpaired trailing
\* surrogates after it, which the result ignores
C10_Witness ==
    /\ StringRead("UTF16")
    /\ last.size = 4
    /\ last.buf[1] = <<65, 0, 0, 0, 0, 220, 0, 220>>
    /\ last.ret = Some(<<65>>)

\* C11: allocate_memory returns absent exactly when the OS returns the zero
\* address and otherwise that address; free_memory of an address that
\* allocate_memory returned and that has not been freed since returns true,
\* and a further free_memory of it returns false.
C11_Allocator ==
    /\ last.op = "allocate_memory" =>
          /\ last.ret = None <=> last.value = Addr(0)
          /\ last.ret # None => last.ret = Some(last.value)
    /\ last.op = "free_memory" =>
          /\ last.address \in last.pre[1].live => last.ret = TRUE
          /\ last.address \in last.pre[1].freed => last.ret = FALSE

\* the second free_memory of an address allocate_memory returned
C11_Witness ==
    /\ last.op = "free_memory"
    /\ last.address \in last.pre[1].freed
    /\ last.address \in AllocBases
    /\ last.ret = FALSE
    /\ allocated.live # {}

\* C12: a handle is closed once, when the Process that owns it is dropped: a
\* handle whose Process is alive is open and was never closed, every other
\* handle that was opened was closed exactly once, no call but the drop of
\* a Process closes the handle of a Process that was alive before the call,
\* and a closed handle is not closed again.
C12_HandleRelease ==
    /\ \A h \in Handle :
          /\ handles[h].closes <= 1
          /\ h \in owned => handles[h].state = "open" /\ handles[h].closes = 0
          /\ handles[h].state # "unused" /\ h \notin owned
                 => handles[h].state = "closed" /\ handles[h].closes = 1
          /\ handles[h].state = "unused" => handles[h].closes = 0
    /\ last.op \in {"get_processes", "get_processes_by_name", "next",
                    "next_back", "is_open", "drop"} =>
          /\ \A h \in last.pre[1].owned :
                IF last.op = "drop" /\ h = last.value[1]
                THEN h \notin owned /\ handles[h].closes = 1
                ELSE h \in owned /\ handles[h].closes = 0
          /\ \A h \in Handle :
                last.pre[1].handles[h].state = "closed"
                    => handles[h] = last.pre[1].handles[h]
          /\ last.op \in {"get_processes", "get_processes_by_name", "is_open"}
                => handles = last.pre[1].handles

\* a next() of get_processes_by_name that opens two handles, drops the
\* Process its filter rejects and yields the other, while a Process opened
\* before is alive
C12_Witness ==
    /\ last.op = "next"
    /\ last.ret # None
    /\ iter.name # None
    /\ last.pre[1].owned # {}
    /\ Cardinality({h \in Handle : /\ last.pre[1].handles[h].state = "unused"
                                   /\ handles[h].closes = 1}) = 1

\* the calls that go through a metadata cache, and the cache each goes through
MetaOps == {"get_name", "module_get_name", "get_file_name", "get_module_info"}
CacheOf(op) ==
    CASE op = "get_name"        -> name
      [] op = "module_get_name" -> module.name
      [] op = "get_file_name"   -> module.file_name
      [] op = "get_module_info" -> module.module_info

\* the units the OS holds of the name a call asks for
NameAsked(op) == IF op = "get_file_name" THEN target.file_name ELSE target.name

\* a call on a cache that is set answers the cached value, makes no query and
\* leaves the cache; a call on an unset cache makes one query, and leaves the
\* cache set to its answer when the query and the decoding succeed, unset
\* and answering absent when either fails
C13_CallOnCache ==
    last.op \in MetaOps =>
        LET before == last.pre[1]
            now    == CacheOf(last.op)
        IN  /\ before # None =>
                  last.ret = before /\ now = before /\ last.qlog = <<>>
            /\ before = None =>
                  /\ Len(last.qlog) = 1
                  /\ now = last.ret
                  /\ last.qlog = <<FALSE>> => last.ret = None
                  /\ last.qlog = <<TRUE>> /\ last.op = "get_module_info" =>
                        last.ret = Some([base_address        |-> target.info.lpBaseOfDll,
                                         module_memory_size  |-> target.info.SizeOfImage,
                                         entry_point_address |-> target.info.EntryPoint])
                  /\ last.qlog = <<TRUE>> /\ last.op # "get_module_info" =>
                        IF WellFormedUtf16(NameAsked(last.op))
                        THEN /\ last.ret # None
                             /\ Utf16Of(last.ret[1]) = NameAsked(last.op)
                        ELSE last.ret = None

\* C13: the process name, module name, module file name and module info
\* caches are set only by the first query that succeeds; a failed query or
\* decode answers absent and leaves the cache unset; once set, a cache is
\* answered from without a query and no step clears or replaces it.
C13_LazyCaches ==
    /\ []C13_CallOnCache
    /\ [][/\ name # None => name' = name
          /\ module.name # None => module'.name = module.name
          /\ module.file_name # None => module'.file_name = module.file_name
          /\ module.module_info # None => module'.module_info = module.module_info]_vars

\* a module name query whose decoding fails, after the module info was cached
C13_Witness ==
    /\ last.op = "module_get_name"
    /\ last.pre[1] = None
    /\ last.qlog = <<TRUE>>
    /\ last.ret = None
    /\ module.name = None
    /\ module.module_info # None
    /\ module.file_name # None

\* the size bytes of target memory at address, when they are all mapped
MemAt(address, size) == [i \in 1..size |-> mem[MemIndex(address) + i - 1]]

\* C14: read_pointer on a handle resolved as 64-bit asks for 8 bytes at the
\* address and returns them; on a handle resolved as 32-bit it asks for 4
\* bytes and returns them zero-extended: an Address in 0 .. 2^32 - 1.
C14_PointerWidth ==
    last.op = "read_pointer" /\ is_64_bit # None =>
        LET width == IF is_64_bit[1] THEN U64Bytes ELSE U32Bytes
        IN  /\ Len(last.rlog) = 1
            /\ last.rlog[1].address = last.address
            /\ last.rlog[1].size = width
            /\ last.ret # None =>
                  /\ Len(last.ret[1]) = AddrBytes
                  /\ SubSeq(last.ret[1], 1, width) = MemAt(last.address, width)
                  /\ \A i \in (width + 1)..AddrBytes : last.ret[1][i] = 0
                  /\ ~is_64_bit[1] => ~IsNegative(last.ret[1])

\* a 32-bit read of 0xFFFFFFFF
C14_Witness ==
    /\ last.op = "read_pointer"
    /\ is_64_bit = Some(FALSE)
    /\ last.ret = Some(<<255, 255, 255, 255, 0, 0, 0, 0>>)

\* C16: in a deref_offsets call no addition of an offset to a pointer read
\* from the target overflows Address: the call does not panic, and every sum
\* it forms is the mathematical sum. (The code adds with `+`: on a pointer
\* near the maximum Address a debug build panics and a release build wraps.)
C16_NoOverflow ==
    last.op = "deref_offsets" =>
        /\ ~last.panic
        /\ \A k \in 1..Len(last.offsets) :
              LET p == ChainTarget(LastCtx, last.address,
                                   SubSeq(last.offsets, 1, k - 1))
              IN  p.ret # None =>
                      ~AddOverflows(p.ret[1], AsAddress(last.offsets[k]))

\* C15: read_buf, read_into_uninit_buf, read_value and read_string leave the
\* target's memory and the caches of the handle as they were; read_pointer
\* and deref_offsets leave the target's memory and the name cache, and
\* change the bitness cache only by setting it when it was unset.
C15_FrameOfReads ==
    [][/\ last'.op \in {"read_buf", "read_into_uninit_buf", "read_value",
                        "read_string"}
            => /\ mem' = mem
               /\ is_64_bit' = is_64_bit
               /\ name' = name
               /\ module' = module
       /\ last'.op \in {"read_pointer", "deref_offsets"}
            => /\ mem' = mem
               /\ name' = name
               /\ module' = module
               /\ is_64_bit # None => is_64_bit' = is_64_bit]_vars

\* a read_value or a read_pointer made with the name cached and the bitness
\* not yet resolved
C15_Witness ==
    /\ last.op \in {"read_value", "read_pointer"}
    /\ last.ret # None
    /\ last.cache0 = None
    /\ name # None
    /\ last.op = "read_value" <=> is_64_bit = None
=============================================================================
